---------------------------- MODULE Spec2Model ----------------------------
(***************************************************************************)
(* Model of crates/bevy_sprite/src/texture_atlas.rs: the TextureAtlas      *)
(* container, its constructors (new_empty, from_grid,                      *)
(* from_grid_with_padding), add_texture and the three queries.             *)
(*                                                                         *)
(* f32 values are modelled by integers.  Every coordinate the model uses   *)
(* is an integer far below 2^24, where f32 addition, multiplication and    *)
(* the i32 -> f32 conversion are exact and the truncated quotient of two   *)
(* such integers is the truncation of the exact quotient.  Fractional      *)
(* sizes and paddings are outside the model.                               *)
(***************************************************************************)
EXTENDS Integers, Sequences, FiniteSets

VARIABLES
    pc,        \* "none": no atlas yet; "live": a constructor returned;
               \* "aborted": the grid build did not return
    atlas,     \* the TextureAtlas value (texture, size, textures, texture_handles)
    build,     \* the constructor call that made the atlas and its arguments
    appended,  \* number of add_texture calls since construction
    ret        \* the last call and the value it returned

vars == <<pc, atlas, build, appended, ret>>

---------------------------------------------------------------------------
(* Bounds of the model *)

\* tile_size components range over -1..MaxTile
MaxTile == 2
\* texture_dimensions components range over 0..MaxDim
MaxDim == 4
\* at most MaxAdds calls of add_texture per atlas
MaxAdds == 2
\* a grid of more than MaxCells rectangles is not materialised: the build is
\* taken not to return (pc = "aborted").  The inputs of the model reach such a
\* count only through a division by zero, where the count on that axis is
\* i32::MAX: the program then pushes at least 2^31 - 1 rectangles (2^62 when
\* both axes divide by zero) and ends in an allocation failure on any machine
\* that cannot hold them.
MaxCells == 600

\* i32::MAX, the value `as i32` saturates to (+inf as i32)
I32Max == 2147483647
I32Min == -2147483647 - 1

\* texture handles (opaque, comparable identifiers)
Handles == {"h1", "h2"}

\* Option<T>: None is the empty set, Some(v) is {v}
None == {}
Some(i) == {i}

---------------------------------------------------------------------------
(* Value types *)

\* Vec2::new
Vec2(x, y) == [x |-> x, y |-> y]

\* Rect { min, max }
Rect(min, max) == [min |-> min, max |-> max]

\* PaddingSpecification::new
new(left, top, right, bottom) ==
    [left |-> left, top |-> top, right |-> right, bottom |-> bottom]

\* mutant of uniform: only the leading edges take the value
uniform_leading_only(value) == new(value.x, value.y, 0, 0)

\* PaddingSpecification::uniform
uniform(value) == new(value.x, value.y, value.x, value.y)

\* impl From<Vec2> for PaddingSpecification
from_vec2(vec2) == uniform(vec2)

\* #[derive(Default)] for PaddingSpecification: every margin 0.0
default_padding == new(0, 0, 0, 0)

---------------------------------------------------------------------------
(* Arithmetic of the grid build *)

Abs(n) == IF n < 0 THEN -n ELSE n

\* mutant of div_as_i32: rounds the quotient up instead of truncating
div_as_i32_ceil(a, b) ==
    IF b = 0
    THEN (IF a > 0 THEN I32Max ELSE IF a < 0 THEN I32Min ELSE 0)
    ELSE LET q == (Abs(a) + Abs(b) - 1) \div Abs(b)
         IN  IF (a < 0) # (b < 0) THEN -q ELSE q

\* (a / b) as i32 on f32 operands: x/0 is +inf or -inf and saturates, 0/0 is
\* NaN and casts to 0, every other quotient is truncated toward zero
div_as_i32(a, b) ==
    IF b = 0
    THEN (IF a > 0 THEN I32Max ELSE IF a < 0 THEN I32Min ELSE 0)
    ELSE LET q == Abs(a) \div Abs(b)
         IN  IF (a < 0) # (b < 0) THEN -q ELSE q

\* let x_padding = padding.left + padding.right;
x_padding(padding) == padding.left + padding.right

\* let y_padding = padding.top + padding.bottom;
y_padding(padding) == padding.top + padding.bottom

\* let rows = (texture_dimensions.x / (tile_size.x + x_padding)) as i32;
rows(tile_size, texture_dimensions, padding) ==
    div_as_i32(texture_dimensions.x, tile_size.x + x_padding(padding))

\* let columns = (texture_dimensions.y / (tile_size.y + y_padding)) as i32;
columns(tile_size, texture_dimensions, padding) ==
    div_as_i32(texture_dimensions.y, tile_size.y + y_padding(padding))

\* let rect_min = Vec2::new(..x.., ..y..)
rect_min(x, y, tile_size, padding) ==
    Vec2((tile_size.x + x_padding(padding)) * x + padding.left,
         (tile_size.y + y_padding(padding)) * y + padding.top)

\* mutant of grid_rect: the far corner also spans the padding
grid_rect_padded(x, y, tile_size, padding) ==
    LET m == rect_min(x, y, tile_size, padding)
    IN  Rect(m, Vec2(m.x + tile_size.x + x_padding(padding),
                     m.y + tile_size.y + y_padding(padding)))

\* the Rect pushed for loop indices x (inner) and y (outer)
grid_rect(x, y, tile_size, padding) ==
    LET m == rect_min(x, y, tile_size, padding)
    IN  Rect(m, Vec2(m.x + tile_size.x, m.y + tile_size.y))

\* for x in 0..columns { sprites.push(...) }: the rectangles one turn of the
\* outer loop pushes, in the order of x
inner_loop(y, ncolumns, tile_size, padding) ==
    [i \in 1..ncolumns |-> grid_rect(i - 1, y, tile_size, padding)]

RECURSIVE outer_loop(_, _, _, _, _, _)
\* for y in 0..rows { for x in 0..columns { ... } }
outer_loop(sprites, y, nrows, ncolumns, tile_size, padding) ==
    IF y >= nrows
    THEN sprites
    ELSE outer_loop(sprites \o inner_loop(y, ncolumns, tile_size, padding),
                    y + 1, nrows, ncolumns, tile_size, padding)

\* TRUE when the two loops push more than MaxCells rectangles (the product is
\* not formed when a factor alone already exceeds MaxCells)
TooManyCells(nrows, ncolumns) ==
    /\ nrows > 0
    /\ ncolumns > 0
    /\ \/ nrows > MaxCells
       \/ ncolumns > MaxCells
       \/ nrows * ncolumns > MaxCells

\* the sprites vector after the loops; when either range is empty no
\* rectangle is pushed, however many times the other loop turns
grid_sprites(tile_size, texture_dimensions, padding) ==
    LET nrows == rows(tile_size, texture_dimensions, padding)
        ncolumns == columns(tile_size, texture_dimensions, padding)
    IN  IF nrows <= 0 \/ ncolumns <= 0
        THEN << >>
        ELSE outer_loop(<< >>, 0, nrows, ncolumns, tile_size, padding)

---------------------------------------------------------------------------
(* Constructors and methods as functions of their arguments *)

\* TextureAtlas::new_empty
new_empty(texture, dimensions) ==
    [texture |-> texture, size |-> dimensions,
     texture_handles |-> None, textures |-> << >>]

\* TextureAtlas::from_grid_with_padding, for a PaddingSpecification
from_grid_with_padding(texture, tile_size, texture_dimensions, padding) ==
    [texture |-> texture, size |-> texture_dimensions,
     texture_handles |-> None,
     textures |-> grid_sprites(tile_size, texture_dimensions, padding)]

\* TextureAtlas::from_grid
from_grid(texture, tile_size, texture_dimensions) ==
    from_grid_with_padding(texture, tile_size, texture_dimensions, default_padding)

\* mutant of add_texture: a rectangle already present is not pushed again
add_texture_dedup(textures, rect) ==
    IF \E i \in 1..Len(textures) : textures[i] = rect
    THEN textures
    ELSE Append(textures, rect)

\* mutant of add_texture: the rectangle is inserted at the front
add_texture_front(textures, rect) == <<rect>> \o textures

\* TextureAtlas::add_texture: self.textures.push(rect)
add_texture(textures, rect) == Append(textures, rect)

\* TextureAtlas::len
len(self) == Len(self.textures)

\* TextureAtlas::is_empty
is_empty(self) == Len(self.textures) = 0

\* mutant of get_texture_index: without a map the first index is returned
get_texture_index_default(self, texture) ==
    IF self.texture_handles = None
    THEN Some(0)
    ELSE LET texture_handles == CHOOSE m \in self.texture_handles : TRUE
         IN  IF texture \in DOMAIN texture_handles
             THEN Some(texture_handles[texture])
             ELSE None

\* TextureAtlas::get_texture_index: texture_handles.as_ref().and_then(get)
get_texture_index(self, texture) ==
    IF self.texture_handles = None
    THEN None
    ELSE LET texture_handles == CHOOSE m \in self.texture_handles : TRUE
         IN  IF texture \in DOMAIN texture_handles
             THEN Some(texture_handles[texture])
             ELSE None

---------------------------------------------------------------------------
(* Inputs *)

TileVals == (-1)..MaxTile
DimVals == 0..MaxDim
PadVals == 0..1

TileSizes == {Vec2(x, y) : x \in TileVals, y \in TileVals}
Dimensions == {Vec2(x, y) : x \in DimVals, y \in DimVals}
Paddings == {new(l, t, r, b) : l \in PadVals, t \in PadVals, r \in PadVals, b \in PadVals}
PaddingVecs == {Vec2(x, y) : x \in PadVals, y \in PadVals}

\* the 32x32 tile on the 128x64 sheet, and the zero tile on the same sheet
SheetTile == Vec2(32, 32)
ZeroTile == Vec2(0, 0)
SheetDimensions == Vec2(128, 64)
SheetPaddingVec == Vec2(2, 2)

\* (tile_size, texture_dimensions) pairs offered to the grid constructors
GridArgs == TileSizes \X Dimensions
SheetArgs == <<SheetTile, SheetDimensions>>
ZeroTileSheetArgs == <<ZeroTile, SheetDimensions>>

\* rectangles offered to add_texture
RectInputs == {Rect(Vec2(0, 0), Vec2(1, 1)), Rect(Vec2(1, 0), Vec2(2, 1))}

\* handle orders offered to the external merge
MergeOrders == {<<"h1">>, <<"h2">>, <<"h1", "h2">>, <<"h2", "h1">>}

GridKinds == {"from_grid", "from_grid_with_padding", "from_grid_with_padding_vec2"}

NoAtlas == new_empty("h1", Vec2(0, 0))
NoBuild ==
    [kind |-> "none", tile_size |-> ZeroTile, texture_dimensions |-> ZeroTile,
     padding |-> default_padding, vec2 |-> ZeroTile]
Call(op, val) == [op |-> op, val |-> val]

---------------------------------------------------------------------------
(* State machine *)

Init ==
    /\ pc = "none"
    /\ atlas = NoAtlas
    /\ build = NoBuild
    /\ appended = 0
    /\ ret = Call("none", 0)

\* let atlas = TextureAtlas::new_empty(texture, dimensions)
NewEmpty ==
    /\ pc = "none"
    /\ \E texture \in Handles, dimensions \in Dimensions :
          /\ atlas' = new_empty(texture, dimensions)
          /\ build' = [NoBuild EXCEPT !.kind = "new_empty",
                                      !.texture_dimensions = dimensions]
    /\ pc' = "live"
    /\ ret' = Call("new_empty", 0)
    /\ UNCHANGED appended

\* one call of a grid constructor, with the padding already converted: it
\* returns the atlas, or does not return when the loops cannot finish
GridBuild(kind, texture, tile_size, texture_dimensions, padding, vec2) ==
    /\ build' = [kind |-> kind, tile_size |-> tile_size,
                 texture_dimensions |-> texture_dimensions,
                 padding |-> padding, vec2 |-> vec2]
    /\ IF TooManyCells(rows(tile_size, texture_dimensions, padding),
                       columns(tile_size, texture_dimensions, padding))
       THEN /\ pc' = "aborted"
            /\ atlas' = NoAtlas
       ELSE /\ pc' = "live"
            /\ atlas' = IF kind = "from_grid"
                        THEN from_grid(texture, tile_size, texture_dimensions)
                        ELSE from_grid_with_padding(texture, tile_size,
                                                    texture_dimensions, padding)
    /\ ret' = Call(kind, 0)
    /\ UNCHANGED appended

\* let atlas = TextureAtlas::from_grid(texture, tile_size, texture_dimensions)
FromGrid ==
    /\ pc = "none"
    /\ \E texture \in Handles, args \in GridArgs \cup {SheetArgs, ZeroTileSheetArgs} :
        GridBuild("from_grid", texture, args[1], args[2], default_padding, ZeroTile)

\* let atlas = TextureAtlas::from_grid_with_padding(.., padding: PaddingSpecification)
FromGridWithPadding ==
    /\ pc = "none"
    /\ \E texture \in Handles, args \in GridArgs, padding \in Paddings :
        GridBuild("from_grid_with_padding", texture, args[1], args[2], padding,
                  ZeroTile)

\* let atlas = TextureAtlas::from_grid_with_padding(.., padding: Vec2)
FromGridWithPaddingVec2 ==
    /\ pc = "none"
    /\ \E texture \in Handles, args \in GridArgs \cup {SheetArgs},
          vec2 \in PaddingVecs \cup {SheetPaddingVec} :
        GridBuild("from_grid_with_padding_vec2", texture, args[1], args[2],
                  from_vec2(vec2), vec2)

\* an atlas assembled outside this file from separately identified textures:
\* one rectangle per handle, and a map from each handle to its position
external_merge(texture, dimensions, order) ==
    [texture |-> texture, size |-> dimensions,
     texture_handles |->
        Some([h \in {order[i] : i \in 1..Len(order)} |->
                (CHOOSE i \in 1..Len(order) : order[i] = h) - 1]),
     textures |-> [i \in 1..Len(order) |-> Rect(Vec2(i - 1, 0), Vec2(i, 1))]]

ExternalMerge ==
    /\ pc = "none"
    /\ \E texture \in Handles, dimensions \in {Vec2(MaxDim, MaxDim)},
          order \in MergeOrders :
          /\ atlas' = external_merge(texture, dimensions, order)
          /\ build' = [NoBuild EXCEPT !.kind = "external_merge",
                                      !.texture_dimensions = dimensions]
    /\ pc' = "live"
    /\ ret' = Call("external_merge", 0)
    /\ UNCHANGED appended

\* atlas.add_texture(rect)
AddTexture ==
    /\ pc = "live"
    /\ appended < MaxAdds
    /\ \E rect \in RectInputs :
          /\ atlas' = [atlas EXCEPT !.textures = add_texture(atlas.textures, rect)]
          /\ ret' = Call("add_texture", rect)
    /\ appended' = appended + 1
    /\ UNCHANGED <<pc, build>>

\* atlas.len()
LenCall ==
    /\ pc = "live"
    /\ ret' = Call("len", len(atlas))
    /\ UNCHANGED <<pc, atlas, build, appended>>

\* atlas.is_empty()
IsEmptyCall ==
    /\ pc = "live"
    /\ ret' = Call("is_empty", is_empty(atlas))
    /\ UNCHANGED <<pc, atlas, build, appended>>

\* atlas.get_texture_index(&texture)
GetTextureIndex ==
    /\ pc = "live"
    /\ \E texture \in Handles :
          ret' = Call("get_texture_index", get_texture_index(atlas, texture))
    /\ UNCHANGED <<pc, atlas, build, appended>>

Next ==
    \/ NewEmpty
    \/ FromGrid
    \/ FromGridWithPadding
    \/ FromGridWithPaddingVec2
    \/ ExternalMerge
    \/ AddTexture
    \/ LenCall
    \/ IsEmptyCall
    \/ GetTextureIndex

Spec == Init /\ [][Next]_vars

---------------------------------------------------------------------------
(* Properties *)

QueryOps == {"len", "is_empty", "get_texture_index"}

\* a grid constructor was called / returned, and nothing has been appended yet
GridCalled == build.kind \in GridKinds
FreshGrid == GridCalled /\ pc = "live" /\ appended = 0
PositiveTile == build.tile_size.x > 0 /\ build.tile_size.y > 0

\* tileSize + padding pair of each axis
DivisorX == build.tile_size.x + build.padding.left + build.padding.right
DivisorY == build.tile_size.y + build.padding.top + build.padding.bottom

\* the 128x64 sheet cut into 32x32 tiles
SheetCall(kind) ==
    /\ build.kind = kind
    /\ build.tile_size = SheetTile
    /\ build.texture_dimensions = SheetDimensions

\* C1: a grid build with a positive tile size (padding and texture
\* dimensions are never negative here) returns
\* floor(dim.x / (tile.x + left + right)) * floor(dim.y / (tile.y + top + bottom))
\* rectangles, each with max - min = tile_size on both axes.
C1_CountAndSize ==
    (GridCalled /\ appended = 0 /\ PositiveTile) =>
        /\ pc = "live"
        /\ Len(atlas.textures) =
              (build.texture_dimensions.x \div DivisorX)
                * (build.texture_dimensions.y \div DivisorY)
        /\ \A k \in 1..Len(atlas.textures) :
              /\ atlas.textures[k].max.x - atlas.textures[k].min.x = build.tile_size.x
              /\ atlas.textures[k].max.y - atlas.textures[k].min.y = build.tile_size.y

\* a padded build of a non-square texture with several cells on one axis
C1_Witness ==
    /\ FreshGrid
    /\ PositiveTile
    /\ build.padding.left > 0
    /\ build.padding.bottom > 0
    /\ build.tile_size.x # build.tile_size.y
    /\ build.texture_dimensions.x # build.texture_dimensions.y
    /\ Len(atlas.textures) >= 2

\* C2: in a grid-built atlas with outerCount bounded by texture_dimensions.x
\* and innerCount by texture_dimensions.y, the rectangle at index k is the cell
\* (k / innerCount, k % innerCount) and its min on each axis is that axis's
\* divisor times the cell's index on that axis plus the leading padding: the
\* outer index on x, the inner index on y.
C2_OuterMajorOrder ==
    (FreshGrid /\ PositiveTile) =>
        LET innerCount == build.texture_dimensions.y \div DivisorY
        IN  \A k \in 0..(Len(atlas.textures) - 1) :
              /\ atlas.textures[k + 1].min.x =
                    DivisorX * (k \div innerCount) + build.padding.left
              /\ atlas.textures[k + 1].min.y =
                    DivisorY * (k % innerCount) + build.padding.top

\* C3: from_grid with tile (32,32) on a (128,64) texture gives 8 rectangles,
\* rectangle 0 = (0,0)/(32,32), rectangle 3 = (96,0)/(128,32) and
\* rectangle 4 = (0,32)/(32,64).
C3_SheetScenario ==
    (SheetCall("from_grid") /\ appended = 0) =>
        /\ pc = "live"
        /\ Len(atlas.textures) = 8
        /\ atlas.textures[1] = Rect(Vec2(0, 0), Vec2(32, 32))
        /\ atlas.textures[4] = Rect(Vec2(96, 0), Vec2(128, 32))
        /\ atlas.textures[5] = Rect(Vec2(0, 32), Vec2(32, 64))

\* the same sheet built with padding uniform((2,2))
PaddedSheetCall ==
    /\ SheetCall("from_grid_with_padding_vec2")
    /\ build.vec2 = SheetPaddingVec
    /\ appended = 0

C5_InvalidTileRejected ==
    (GridCalled /\ ~PositiveTile) => pc = "InvalidTileSize"

\* C6: add_texture on an atlas of N rectangles puts rect at index N, and then
\* len() is N + 1 and is_empty() is false.
C6_AppendAtEnd ==
    [][ret'.op = "add_texture" =>
          LET N == len(atlas)
          IN  /\ Len(atlas'.textures) = N + 1
              /\ atlas'.textures[N + 1] = ret'.val
              /\ len(atlas') = N + 1
              /\ is_empty(atlas') = FALSE]_vars

\* a second append to a grid-built atlas that already held rectangles
C6_Witness ==
    /\ pc = "live"
    /\ GridCalled
    /\ ret.op = "add_texture"
    /\ appended = 2
    /\ len(atlas) >= 4
    /\ atlas.textures[len(atlas)] = atlas.textures[len(atlas) - 1]

\* C7: a grid-built atlas has no index map, and get_texture_index returns
\* None for every handle, also after add_texture calls.
C7_GridLookupIsNone ==
    (GridCalled /\ pc = "live") =>
        /\ atlas.texture_handles = None
        /\ \A texture \in Handles : get_texture_index(atlas, texture) = None
        /\ ret.op = "get_texture_index" => ret.val = None

\* a lookup on a grid-built atlas after an append
C7_Witness ==
    /\ pc = "live"
    /\ GridCalled
    /\ appended >= 1
    /\ len(atlas) >= 2
    /\ ret.op = "get_texture_index"

\* C8: when tile_size + padding exceeds texture_dimensions on either axis the
\* grid build returns an atlas with no rectangle, size = texture_dimensions and
\* no index map.
C8_OversizeTileGivesEmptyAtlas ==
    (GridCalled /\ appended = 0
        /\ (DivisorX > build.texture_dimensions.x
               \/ DivisorY > build.texture_dimensions.y)) =>
        /\ pc = "live"
        /\ atlas.textures = << >>
        /\ atlas.size = build.texture_dimensions
        /\ atlas.texture_handles = None

\* the tile fits one axis several times and not the other
C8_Witness ==
    /\ FreshGrid
    /\ PositiveTile
    /\ DivisorX > build.texture_dimensions.x
    /\ build.texture_dimensions.x > 0
    /\ build.texture_dimensions.y >= 2 * DivisorY
    /\ atlas.textures = << >>

\* C9: once constructed, the rectangle sequence only grows at its end: every
\* rectangle keeps its index and value, the length never decreases, and len,
\* is_empty and get_texture_index leave the atlas unchanged.
C9_IndicesStable ==
    [][pc = "live" =>
          /\ pc' = "live"
          /\ Len(atlas'.textures) >= Len(atlas.textures)
          /\ \A k \in 1..Len(atlas.textures) :
                atlas'.textures[k] = atlas.textures[k]
          /\ ret'.op \in QueryOps => atlas' = atlas]_vars

\* a query after two appends to an atlas that was built with rectangles
C9_Witness ==
    /\ pc = "live"
    /\ build.kind \in GridKinds \cup {"new_empty"}
    /\ appended = 2
    /\ len(atlas) >= 3
    /\ atlas.textures[len(atlas)] # atlas.textures[len(atlas) - 1]
    /\ ret.op \in QueryOps

\* C10: every rectangle of a grid build with a positive tile size lies inside
\* the texture: 0 <= min and max <= texture_dimensions on both axes.
C10_RectanglesInsideTexture ==
    (FreshGrid /\ PositiveTile) =>
        \A k \in 1..Len(atlas.textures) :
            /\ 0 <= atlas.textures[k].min.x
            /\ 0 <= atlas.textures[k].min.y
            /\ atlas.textures[k].max.x <= build.texture_dimensions.x
            /\ atlas.textures[k].max.y <= build.texture_dimensions.y

=============================================================================
